---- MODULE Spec2Model ----
(***************************************************************************)
(* FinanceLakeStorage (src/data_storage.py): the bronze / silver / gold    *)
(* pipeline over Delta tables.  A DataFrame is a schema (a set of column   *)
(* names) and a bag of rows; a row maps each column to a cell; a cell is   *)
(* Null or V(x).  A Delta table is the sequence of its committed versions. *)
(***************************************************************************)
EXTENDS Integers, Sequences, FiniteSets, TLC

VARIABLES tables, clock, last

vars == <<tables, clock, last>>

(* ------------------------------ bounds --------------------------------- *)

\* Committing calls the model follows before it stops writing (caps the
\* Delta logs and the clock).
MaxCalls == 3

(* ------------------------------ cells ---------------------------------- *)

Null == <<>>
V(x) == <<x>>

(* ------------------------------ bags of rows --------------------------- *)

RECURSIVE SumOver(_, _)
SumOver(f, S) ==
    IF S = {} THEN 0
    ELSE LET x == CHOOSE y \in S : TRUE IN f[x] + SumOver(f, S \ {x})

BagFromSeq(s) ==
    [r \in {s[i] : i \in DOMAIN s} |-> Cardinality({i \in DOMAIN s : s[i] = r})]

BagSize(b) == SumOver(b, DOMAIN b)

\* The rows of b that are in `keep`.
BagFilter(b, keep) == [r \in DOMAIN b \cap keep |-> b[r]]

\* Each row x of b replaced by f[x].
BagMap(b, f) ==
    [y \in {f[x] : x \in DOMAIN b} |-> SumOver(b, {x \in DOMAIN b : f[x] = y})]

(* ------------------------------ DataFrame operators -------------------- *)

Frame(cols, rowSeq) ==
    [cols |-> cols,
     rows |-> BagFromSeq([i \in DOMAIN rowSeq |-> [c \in cols |-> rowSeq[i][c]]])]

\* df.withColumn(name, expr): adds the column, or replaces it when present;
\* expr gives the new cell of each row.
WithColumn(df, name, expr) ==
    [cols |-> df.cols \cup {name},
     rows |-> BagMap(df.rows,
                     [r \in DOMAIN df.rows |->
                         [c \in df.cols \cup {name} |->
                             IF c = name THEN expr[r] ELSE r[c]]])]

\* df.filter(cond), cond given as the rows it holds of.
FilterRows(df, keep) == [cols |-> df.cols, rows |-> BagFilter(df.rows, keep)]

\* Mutant of EmptyIdFrame: the empty frame made without its schema.
EmptyFrameWithoutSchema == [cols |-> {}, rows |-> <<>>]

\* spark.createDataFrame([], "id: string")
EmptyIdFrame == [cols |-> {"id"}, rows |-> <<>>]

NoFrame == [cols |-> {}, rows |-> <<>>]

\* col("transaction_date").cast("date"): a date as yyyymmdd, Null when the
\* string is no date.
CastToDate(cell) ==
    IF cell = Null THEN Null
    ELSE CASE cell[1] = "2024-01-01" -> V(20240101)
           [] cell[1] = "2024-01-02" -> V(20240102)
           [] cell[1] = "2024-01-03" -> V(20240103)
           [] OTHER -> Null

YearOf(cell)  == IF cell = Null THEN Null ELSE V(cell[1] \div 10000)
MonthOf(cell) == IF cell = Null THEN Null ELSE V((cell[1] \div 100) % 100)
DayOf(cell)   == IF cell = Null THEN Null ELSE V(cell[1] % 100)

\* current_date() at the time of the write: the day advances with the clock.
FirstDay == 20240103
CurrentDate(now) == V(FirstDay + now)

\* col(name) == value, as a filter condition: never true of a null cell.
EqualsValue(cell, value) == cell # Null /\ cell[1] = value

\* Mutant of GreaterThanZero: >= 0 in place of > 0.
GreaterOrEqualZero(cell) == cell # Null /\ cell[1] >= 0

\* col("amount").isNotNull() and col("amount") > 0, as filter conditions.
IsNotNull(cell) == cell # Null
GreaterThanZero(cell) == cell # Null /\ cell[1] > 0

(* ------------------------------ the storage engine --------------------- *)
(* The Delta / Spark collaborator, by the contract the code relies on: a   *)
(* save in mode "overwrite" commits a new version holding the frame, a     *)
(* load of a path that holds no table raises, a groupBy on a column the    *)
(* frame lacks raises, and a read takes versionAsOf or timestampAsOf.      *)

BronzePath(table_name) == "bronze/" \o table_name
SilverPath(table_name) == "silver/" \o table_name
GoldPath(table_name)   == "gold/" \o table_name

BronzeTables == {"transactions"}
SilverTables == {"enriched_transactions"}
GoldTables   == {"daily_summaries"}

Paths == {BronzePath(t) : t \in BronzeTables}
         \cup {SilverPath(t) : t \in SilverTables}
         \cup {GoldPath(t) : t \in GoldTables}

Exists(store, path) == store[path] # <<>>

\* The latest committed frame of a table.
Latest(store, path) == store[path][Len(store[path])].frame

\* writer.save(path) in mode "overwrite": one more version, stamped `now`.
Commit(store, path, frame, now) ==
    [store EXCEPT ![path] = Append(@, [frame |-> frame, ts |-> now])]

(* ------------------------------ inputs --------------------------------- *)

RawRow(id, cust, amt, tdate, country, type, date, region) ==
    [transaction_id |-> id, customer_id |-> cust, amount |-> amt,
     transaction_date |-> tdate, country |-> country,
     transaction_type |-> type, date |-> date, region |-> region]

\* Rows 1..3 are main()'s sample_data; the others carry the amounts and
\* nulls the filters and aggregations decide on.
RawRows ==
    << RawRow(V("TXN001"), V("CUST001"), V(1000), V("2024-01-01"), V("US"),
              V("DEPOSIT"), V(20240101), V("AMER")),
       RawRow(V("TXN002"), V("CUST002"), V(500), V("2024-01-01"), V("EU"),
              V("WITHDRAWAL"), V(20240101), V("EMEA")),
       RawRow(V("TXN003"), V("CUST001"), V(200), V("2024-01-02"), V("US"),
              V("DEPOSIT"), V(20240102), V("AMER")),
       RawRow(V("TXN004"), V("CUST003"), Null, V("2024-01-02"), V("EU"),
              V("DEPOSIT"), V(20240102), V("EMEA")),
       RawRow(V("TXN005"), V("CUST002"), V(-50), V("n/a"), V("US"),
              V("WITHDRAWAL"), Null, V("AMER")),
       RawRow(V("TXN006"), Null, V(300), V("2024-01-02"), V("US"),
              V("DEPOSIT"), V(20240102), V("AMER")),
       RawRow(V("TXN007"), V("CUST003"), V(0), V("2024-01-03"), V("EU"),
              V("DEPOSIT"), V(20240103), V("EMEA")) >>

SampleColumns ==
    {"transaction_id", "customer_id", "amount", "transaction_date",
     "country", "transaction_type"}

SampleFrame == Frame(SampleColumns, SubSeq(RawRows, 1, 3))

\* The frames handed to write_bronze_layer: the sample; every raw row in the
\* sample's columns; every raw row with a region and a date of its own and no
\* transaction_type; customer ids alone; dates and regions alone.
InputFrames ==
    { SampleFrame,
      Frame(SampleColumns, RawRows),
      Frame({"transaction_id", "customer_id", "amount", "country", "region", "date"},
            RawRows),
      Frame({"customer_id"}, SubSeq(RawRows, 1, 3)),
      Frame({"date", "region"}, RawRows) }

\* partition_cols: None, or a list.
PartitionRequests ==
    {Null, V(<<>>), V(<<"region", "date">>), V(<<"country", "batch_id">>)}

\* filters: None, or a dict from column to value.
FilterRequests == {Null, V([region |-> "US"]), V([batch_id |-> "B1"])}

(* ------------------------------ the last call -------------------------- *)
(* What the last call was given, what it handed to the engine and how it   *)
(* ended.                                                                  *)

Blank ==
    [op |-> "none", raised |-> FALSE,
     df |-> NoFrame, request |-> Null, filters |-> Null,
     path |-> "", version |-> Null, timestamp |-> Null,
     sourceFound |-> FALSE, source |-> NoFrame,
     wrote |-> FALSE, written |-> NoFrame, target |-> "",
     partitioned |-> FALSE, parts |-> <<>>,
     groups |-> <<>>, zorder |-> <<>>, optimize |-> "none",
     options |-> <<>>, ret |-> NoFrame]

(* ------------------------------ write_bronze_layer --------------------- *)

\* partition_cols, defaulted.
RequestedPartitionCols(partition_cols) ==
    IF partition_cols = Null THEN <<"date", "region">> ELSE partition_cols[1]

\* Mutant of DeriveDate: transaction_date is not looked at.
DeriveDate_AlwaysToday(df, now) ==
    IF "date" \notin df.cols
    THEN WithColumn(df, "date", [r \in DOMAIN df.rows |-> CurrentDate(now)])
    ELSE df

\* Add date column if it doesn't exist.
DeriveDate(df, now) ==
    IF "date" \notin df.cols
    THEN IF "transaction_date" \in df.cols
         THEN WithColumn(df, "date",
                         [r \in DOMAIN df.rows |-> CastToDate(r["transaction_date"])])
         ELSE WithColumn(df, "date", [r \in DOMAIN df.rows |-> CurrentDate(now)])
    ELSE df

\* Mutant of DeriveRegion: country is not looked at.
DeriveRegion_AlwaysUnknown(df, df_transformed) ==
    IF "region" \notin df.cols
    THEN WithColumn(df_transformed, "region",
                         [r \in DOMAIN df_transformed.rows |-> V("UNKNOWN")])
    ELSE df_transformed

\* Add region column if it doesn't exist (decided on the input's columns,
\* applied to the frame transformed so far).
DeriveRegion(df, df_transformed) ==
    IF "region" \notin df.cols
    THEN IF "country" \in df.cols
         THEN WithColumn(df_transformed, "region",
                         [r \in DOMAIN df_transformed.rows |-> r["country"]])
         ELSE WithColumn(df_transformed, "region",
                         [r \in DOMAIN df_transformed.rows |-> V("UNKNOWN")])
    ELSE df_transformed

\* Mutant of ExistingPartitionCols: the requested list, unfiltered.
ExistingPartitionCols_Unfiltered(partition_cols, df_transformed) == partition_cols

\* [col for col in partition_cols if col in df_transformed.columns]
ExistingPartitionCols(partition_cols, df_transformed) ==
    SelectSeq(partition_cols, LAMBDA c : c \in df_transformed.cols)

write_bronze_layer(df, table_name, partition_cols) ==
    LET path == BronzePath(table_name)
        requested == RequestedPartitionCols(partition_cols)
        df_transformed == DeriveRegion(df, DeriveDate(df, clock))
        existing_partition_cols == ExistingPartitionCols(requested, df_transformed)
    IN /\ clock < MaxCalls
       /\ clock' = clock + 1
       /\ tables' = Commit(tables, path, df_transformed, clock')
       /\ last' = [Blank EXCEPT !.op = "write_bronze_layer",
                                !.df = df, !.request = partition_cols,
                                !.wrote = TRUE, !.written = df_transformed,
                                !.target = path,
                                !.partitioned = (existing_partition_cols # <<>>),
                                !.parts = existing_partition_cols]

(* ------------------------------ read_bronze_layer ---------------------- *)

\* for col_name, value in filters.items(): if col_name in df.columns: filter
ApplyFilters(df, filters) ==
    IF filters = Null \/ DOMAIN filters[1] = {}
    THEN df
    ELSE FilterRows(df, {r \in DOMAIN df.rows :
             \A col_name \in DOMAIN filters[1] :
                 col_name \in df.cols => EqualsValue(r[col_name], filters[1][col_name])})

\* The frame read_bronze_layer returns from `store`.
ReadBronze(store, table_name, filters) ==
    LET path == BronzePath(table_name)
    IN IF ~Exists(store, path)
       THEN EmptyIdFrame
       ELSE ApplyFilters(Latest(store, path), filters)

read_bronze_layer(table_name, filters) ==
    /\ last' = [Blank EXCEPT !.op = "read_bronze_layer",
                             !.path = BronzePath(table_name),
                             !.filters = filters,
                             !.sourceFound = Exists(tables, BronzePath(table_name)),
                             !.ret = ReadBronze(tables, table_name, filters)]
    /\ UNCHANGED <<tables, clock>>

(* ------------------------------ transform_to_silver -------------------- *)

\* Add date-related columns if date column exists.
AddDateParts(bronze_df) ==
    IF "date" \in bronze_df.cols
    THEN LET with_year == WithColumn(bronze_df, "year",
                                     [r \in DOMAIN bronze_df.rows |-> YearOf(r["date"])])
             with_month == WithColumn(with_year, "month",
                                      [r \in DOMAIN with_year.rows |-> MonthOf(r["date"])])
         IN WithColumn(with_month, "day",
                       [r \in DOMAIN with_month.rows |-> DayOf(r["date"])])
    ELSE bronze_df

\* Filter valid amounts if amount column exists.
FilterValidAmounts(bronze_df, silver_df) ==
    IF "amount" \in bronze_df.cols
    THEN LET not_null == FilterRows(silver_df,
                                    {r \in DOMAIN silver_df.rows : IsNotNull(r["amount"])})
         IN FilterRows(not_null,
                       {r \in DOMAIN not_null.rows : GreaterThanZero(r["amount"])})
    ELSE silver_df

\* Determine partition columns that exist.
SilverPartitionCols(silver_df) ==
    (IF "year" \in silver_df.cols THEN <<"year", "month">> ELSE <<>>)
    \o (IF "region" \in silver_df.cols THEN <<"region">> ELSE <<>>)

ZOrderCols(silver_df) ==
    (IF "customer_id" \in silver_df.cols THEN <<"customer_id">> ELSE <<>>)
    \o (IF "transaction_type" \in silver_df.cols THEN <<"transaction_type">> ELSE <<>>)

\* What the engine does at the optimization step.
EngineOutcomes == {"ok", "open_fails", "zorder_fails"}

\* Mutant of OptimizeOutcome: executeZOrderBy is called without the
\* `if zorder_cols` guard, and fails in the engine when given no column.
OptimizeOutcome_NoGuard(zorder_cols, engine) ==
    IF engine = "open_fails" THEN "open_failed"
    ELSE IF engine = "zorder_fails" \/ zorder_cols = <<>> THEN "failed"
    ELSE "done"

\* The try block after the save: DeltaTable.forPath, then executeZOrderBy
\* when zorder_cols is not empty; any exception is caught.
OptimizeOutcome(zorder_cols, engine) ==
    IF engine = "open_fails" THEN "open_failed"
    ELSE IF zorder_cols = <<>> THEN "skipped"
    ELSE IF engine = "zorder_fails" THEN "failed"
    ELSE "done"

\* executeZOrderBy rewrites the files of a table that has rows and commits
\* that as a version of its own, holding the same rows.
Optimized(store, path, outcome, now) ==
    IF outcome = "done" /\ DOMAIN Latest(store, path).rows # {}
    THEN Commit(store, path, Latest(store, path), now)
    ELSE store

transform_to_silver(bronze_table, silver_table, engine) ==
    LET bronze_df == ReadBronze(tables, bronze_table, Null)
        silver_df == FilterValidAmounts(bronze_df, AddDateParts(bronze_df))
        path == SilverPath(silver_table)
        partition_cols == SilverPartitionCols(silver_df)
        zorder_cols == ZOrderCols(silver_df)
        outcome == OptimizeOutcome(zorder_cols, engine)
    IN /\ clock < MaxCalls
       /\ clock' = clock + 1
       /\ tables' = Optimized(Commit(tables, path, silver_df, clock'), path,
                              outcome, clock')
       /\ last' = [Blank EXCEPT !.op = "transform_to_silver",
                                !.path = BronzePath(bronze_table),
                                !.sourceFound = Exists(tables, BronzePath(bronze_table)),
                                !.source = bronze_df,
                                !.wrote = TRUE, !.written = silver_df,
                                !.target = path,
                                !.partitioned = (partition_cols # <<>>),
                                !.parts = partition_cols,
                                !.zorder = IF outcome = "open_failed" THEN <<>>
                                           ELSE zorder_cols,
                                !.optimize = outcome]

(* ------------------------------ create_gold_aggregations --------------- *)

Range(seq) == {seq[i] : i \in DOMAIN seq}

\* Mutant of GroupCols: no fallback to [date].
GroupCols_NoFallback(silver_df) ==
    SelectSeq(<<"date", "region", "transaction_type">>, LAMBDA c : c \in silver_df.cols)

\* Create daily summaries - check which columns exist.
GroupCols(silver_df) ==
    LET present == SelectSeq(<<"date", "region", "transaction_type">>,
                             LAMBDA c : c \in silver_df.cols)
    IN IF present = <<>> THEN <<"date">> ELSE present

\* Build aggregation expressions based on available columns.
AggExpr(silver_df) ==
    [c \in {"amount", "customer_id"} \cap silver_df.cols |->
        IF c = "amount" THEN "sum" ELSE "count"]

\* The name Spark gives the column of an aggregate.
AggColumn(fn, c) == fn \o "(" \o c \o ")"

\* groupBy(*group_cols) raises when a grouping column is not in the frame.
GroupByRejected(df, group_cols) == ~(Range(group_cols) \subseteq df.cols)

GroupKeys(df, group_cols) ==
    {[c \in Range(group_cols) |-> r[c]] : r \in DOMAIN df.rows}

GroupMembers(df, key) ==
    {r \in DOMAIN df.rows : \A c \in DOMAIN key : r[c] = key[c]}

\* sum(c) over a group: nulls are skipped, and the sum of none is null.
SumAgg(df, members, c) ==
    LET vals == {r \in members : r[c] # Null}
    IN IF vals = {} THEN Null
       ELSE V(SumOver([r \in vals |-> df.rows[r] * r[c][1]], vals))

\* count(c) over a group: the rows whose c is not null.
CountAgg(df, members, c) ==
    LET vals == {r \in members : r[c] # Null}
    IN V(SumOver([r \in vals |-> df.rows[r]], vals))

\* df.groupBy(*group_cols).agg(agg_expr)
GroupByAgg(df, group_cols, agg_expr) ==
    LET gset == Range(group_cols)
        aggs == {AggColumn(agg_expr[c], c) : c \in DOMAIN agg_expr}
        Of(name) == CHOOSE c \in DOMAIN agg_expr : AggColumn(agg_expr[c], c) = name
        row(key) ==
            LET members == GroupMembers(df, key)
            IN [c \in gset \cup aggs |->
                   IF c \in gset THEN key[c]
                   ELSE IF agg_expr[Of(c)] = "sum" THEN SumAgg(df, members, Of(c))
                   ELSE CountAgg(df, members, Of(c))]
    IN [cols |-> gset \cup aggs,
        rows |-> [g \in {row(key) : key \in GroupKeys(df, group_cols)} |-> 1]]

\* df.groupBy(*group_cols).count()
GroupByCount(df, group_cols) ==
    LET gset == Range(group_cols)
        row(key) ==
            LET members == GroupMembers(df, key)
            IN [c \in gset \cup {"count"} |->
                   IF c \in gset THEN key[c]
                   ELSE V(SumOver([r \in members |-> df.rows[r]], members))]
    IN [cols |-> gset \cup {"count"},
        rows |-> [g \in {row(key) : key \in GroupKeys(df, group_cols)} |-> 1]]

\* df.withColumnRenamed(old, new): a no-op when old is not a column.
WithColumnRenamed(df, old, new) ==
    IF old \notin df.cols THEN df
    ELSE LET cols == (df.cols \ {old}) \cup {new}
         IN [cols |-> cols,
             rows |-> BagMap(df.rows,
                             [r \in DOMAIN df.rows |->
                                 [c \in cols |-> IF c = new THEN r[old] ELSE r[c]]])]

\* Mutant of RenameAggregates: count(customer_id) keeps its name.
RenameAggregates_SumOnly(gold_df) ==
    IF "sum(amount)" \in gold_df.cols
    THEN WithColumnRenamed(gold_df, "sum(amount)", "total_amount")
    ELSE gold_df

\* Rename columns for clarity.
RenameAggregates(gold_df) ==
    LET renamed == IF "sum(amount)" \in gold_df.cols
                   THEN WithColumnRenamed(gold_df, "sum(amount)", "total_amount")
                   ELSE gold_df
    IN IF "count(customer_id)" \in renamed.cols
       THEN WithColumnRenamed(renamed, "count(customer_id)", "transaction_count")
       ELSE renamed

\* The frame create_gold_aggregations builds from the silver frame.
GoldFrame(silver_df) ==
    LET group_cols == GroupCols(silver_df)
        agg_expr == AggExpr(silver_df)
    IN IF DOMAIN agg_expr = {}
       THEN GroupByCount(silver_df, group_cols)
       ELSE RenameAggregates(GroupByAgg(silver_df, group_cols, agg_expr))

\* Determine partition columns.
GoldPartitionCols(gold_df) ==
    (IF "date" \in gold_df.cols THEN <<"date">> ELSE <<>>)
    \o (IF "region" \in gold_df.cols THEN <<"region">> ELSE <<>>)

create_gold_aggregations(silver_table, gold_table) ==
    LET path == SilverPath(silver_table)
        gold_path == GoldPath(gold_table)
        called == [Blank EXCEPT !.op = "create_gold_aggregations", !.path = path,
                                !.sourceFound = Exists(tables, path)]
    IN IF ~Exists(tables, path)
       THEN \* spark.read...load(path) raises
            /\ last' = [called EXCEPT !.raised = TRUE]
            /\ UNCHANGED <<tables, clock>>
       ELSE LET silver_df == Latest(tables, path)
                group_cols == GroupCols(silver_df)
            IN IF GroupByRejected(silver_df, group_cols)
               THEN \* groupBy raises
                    /\ last' = [called EXCEPT !.raised = TRUE, !.source = silver_df,
                                              !.groups = group_cols]
                    /\ UNCHANGED <<tables, clock>>
               ELSE LET gold_df == GoldFrame(silver_df)
                        partition_cols == GoldPartitionCols(gold_df)
                    IN /\ clock < MaxCalls
                       /\ clock' = clock + 1
                       /\ tables' = Commit(tables, gold_path, gold_df, clock')
                       /\ last' = [called EXCEPT !.source = silver_df,
                                                 !.groups = group_cols,
                                                 !.wrote = TRUE, !.written = gold_df,
                                                 !.target = gold_path,
                                                 !.partitioned = (partition_cols # <<>>),
                                                 !.parts = partition_cols]

(* ------------------------------ time_travel_query ---------------------- *)

\* A timestamp, as the string the caller passes.
TimestampString(tick) == "T" \o ToString(tick)

VersionInputs == {Null, V(0), V(1)}
TimestampInputs == {Null, V(TimestampString(1))}

\* The version a versionAsOf string names.
ParseVersion(s) == CHOOSE v \in 0..(2 * MaxCalls + 2) : ToString(v) = s

\* The tick a timestampAsOf string names.
ParseTimestamp(s) == CHOOSE k \in 0..(MaxCalls + 1) : TimestampString(k) = s

\* Mutant of ReadOptions: `if` in place of `elif`.
ReadOptions_Both(version, timestamp) ==
    (IF version # Null THEN [versionAsOf |-> ToString(version[1])] ELSE <<>>)
    @@ (IF timestamp # Null THEN [timestampAsOf |-> timestamp[1]] ELSE <<>>)

\* options = {} ; if version is not None ... elif timestamp is not None ...
ReadOptions(version, timestamp) ==
    IF version # Null THEN [versionAsOf |-> ToString(version[1])]
    ELSE IF timestamp # Null THEN [timestampAsOf |-> timestamp[1]]
    ELSE <<>>

\* The 1-based index of the version a read with `options` resolves to, 0 when
\* the engine raises: no table, both options given, a version the log lacks,
\* a timestamp outside the log.
ResolveVersion(store, path, options) ==
    LET log == store[path]
    IN IF log = <<>> THEN 0
       ELSE IF {"versionAsOf", "timestampAsOf"} \subseteq DOMAIN options THEN 0
       ELSE IF "versionAsOf" \in DOMAIN options
            THEN LET v == ParseVersion(options["versionAsOf"])
                 IN IF v < Len(log) THEN v + 1 ELSE 0
       ELSE IF "timestampAsOf" \in DOMAIN options
            THEN LET t == ParseTimestamp(options["timestampAsOf"])
                     upto == {i \in DOMAIN log : log[i].ts <= t}
                 IN IF upto = {} \/ t > log[Len(log)].ts THEN 0
                    ELSE CHOOSE i \in upto : \A j \in upto : j <= i
       ELSE Len(log)

time_travel_query(table_path, version, timestamp) ==
    LET options == ReadOptions(version, timestamp)
        found == ResolveVersion(tables, table_path, options)
    IN /\ last' = [Blank EXCEPT !.op = "time_travel_query",
                                !.path = table_path,
                                !.version = version, !.timestamp = timestamp,
                                !.options = options,
                                !.sourceFound = Exists(tables, table_path),
                                !.raised = (found = 0),
                                !.ret = IF found = 0 THEN NoFrame
                                        ELSE tables[table_path][found].frame]
       /\ UNCHANGED <<tables, clock>>

(* ------------------------------ specification -------------------------- *)

Init ==
    /\ tables = [p \in Paths |-> <<>>]
    /\ clock = 0
    /\ last = Blank

Next ==
    \/ \E df \in InputFrames, t \in BronzeTables, pc \in PartitionRequests :
           write_bronze_layer(df, t, pc)
    \/ \E t \in BronzeTables, f \in FilterRequests : read_bronze_layer(t, f)
    \/ \E b \in BronzeTables, t \in SilverTables, e \in EngineOutcomes :
           transform_to_silver(b, t, e)
    \/ \E t \in SilverTables, g \in GoldTables : create_gold_aggregations(t, g)
    \/ \E p \in Paths, v \in VersionInputs, ts \in TimestampInputs :
           time_travel_query(p, v, ts)

Spec == Init /\ [][Next]_vars

(* ------------------------------ properties ----------------------------- *)

\* The rows of a frame, cut down to `cols`.
Projected(frame, cols) ==
    BagMap(frame.rows, [r \in DOMAIN frame.rows |-> [c \in cols |-> r[c]]])

\* `parts` keeps the order of `reference` and repeats nothing.
InOrderOf(parts, reference) ==
    parts = SelectSeq(reference, LAMBDA c : c \in Range(parts))

\* The list the partition columns of the last write are taken from.
ReferenceOrder ==
    CASE last.op = "write_bronze_layer" ->
             IF last.request = Null THEN <<"date", "region">> ELSE last.request[1]
      [] last.op = "transform_to_silver" -> <<"year", "month", "region">>
      [] OTHER -> <<"date", "region">>

\* C1: the partition columns handed to the writer by any of the three writes
\* are columns of the frame being written, in the requested (bronze) or fixed
\* (silver, gold) order, and the write is partitioned exactly when that list
\* is not empty.
C1_PartitionColsInSchema ==
    last.wrote =>
        /\ Range(last.parts) \subseteq last.written.cols
        /\ InOrderOf(last.parts, ReferenceOrder)
        /\ last.partitioned = (last.parts # <<>>)
        /\ Latest(tables, last.target) = last.written

C1_Witness ==
    /\ last.op = "write_bronze_layer"
    /\ last.request = V(<<"country", "batch_id">>)
    /\ last.parts = <<"country">>
    /\ last.partitioned

\* C2: a read_bronze_layer of a table that does not exist does not raise,
\* returns the frame of schema {id} with no rows whatever the filters, and
\* changes no table.
C2_ReadMissingBronze ==
    [][ (last'.op = "read_bronze_layer" /\ ~Exists(tables, last'.path)) =>
            /\ ~last'.raised
            /\ last'.ret.cols = {"id"}
            /\ BagSize(last'.ret.rows) = 0
            /\ tables' = tables ]_vars

C2_Witness ==
    /\ last.op = "read_bronze_layer"
    /\ ~Exists(tables, last.path)
    /\ last.filters # Null
    /\ ~last.raised
    /\ last.ret.cols = {"id"}

\* C3: no silver table exists while its source bronze table has never been
\* written, and no gold table while its source silver table has never been
\* written.
C3_LayerOrder ==
    /\ \A b \in BronzeTables, t \in SilverTables :
           Exists(tables, SilverPath(t)) => Exists(tables, BronzePath(b))
    /\ \A t \in SilverTables, g \in GoldTables :
           Exists(tables, GoldPath(g)) => Exists(tables, SilverPath(t))

\* C4: transform_to_silver writes exactly the bronze rows whose amount is not
\* null and at least 1 when bronze has an amount column, and every bronze row
\* when it has none.
C4_SilverKeepsValidAmounts ==
    last.op = "transform_to_silver" =>
        LET bronze == last.source
            kept == IF "amount" \in bronze.cols
                    THEN BagFilter(bronze.rows,
                                   {r \in DOMAIN bronze.rows :
                                        r["amount"] # Null /\ r["amount"][1] >= 1})
                    ELSE bronze.rows
        IN /\ last.sourceFound => bronze = Latest(tables, last.path)
           /\ bronze.cols \subseteq last.written.cols
           /\ Projected(last.written, bronze.cols) = kept
           /\ Latest(tables, last.target) = last.written

C4_Witness ==
    /\ last.op = "transform_to_silver"
    /\ "amount" \in last.source.cols
    /\ \E r \in DOMAIN last.source.rows : r["amount"] = Null
    /\ \E r \in DOMAIN last.source.rows : r["amount"] = V(-50)
    /\ \E r \in DOMAIN last.source.rows : r["amount"] = V(0)
    /\ BagSize(last.written.rows) = 4
    /\ BagSize(last.source.rows) = 7

\* The silver rows of a gold row's group.
RowsOfGroup(silver, groups, g) ==
    {r \in DOMAIN silver.rows : \A c \in Range(groups) : r[c] = g[c]}

\* C5: on a silver frame with amount and customer_id, the gold frame has the
\* group-by columns, total_amount and transaction_count and no other column;
\* the group-by columns are those of date, region, transaction_type, in that
\* order, that silver has; there is one gold row per group, total_amount is
\* the sum of the group's amounts and transaction_count the number of its rows
\* with a customer_id.
C5_GoldAggregates ==
    (/\ last.op = "create_gold_aggregations"
     /\ last.wrote
     /\ {"amount", "customer_id"} \subseteq last.source.cols) =>
        LET silver == last.source
            gold == last.written
            groups == last.groups
        IN /\ groups = SelectSeq(<<"date", "region", "transaction_type">>,
                                 LAMBDA c : c \in silver.cols)
           /\ gold.cols = Range(groups) \cup {"total_amount", "transaction_count"}
           /\ {"sum(amount)", "count(customer_id)"} \cap gold.cols = {}
           /\ \A r \in DOMAIN silver.rows :
                  \E g \in DOMAIN gold.rows : r \in RowsOfGroup(silver, groups, g)
           /\ \A g \in DOMAIN gold.rows :
                  LET members == RowsOfGroup(silver, groups, g)
                      withCustomer == {r \in members : r["customer_id"] # Null}
                  IN /\ gold.rows[g] = 1
                     /\ members # {}
                     /\ g["total_amount"] =
                            V(SumOver([r \in members |-> silver.rows[r] * r["amount"][1]],
                                      members))
                     /\ g["transaction_count"] =
                            V(SumOver([r \in withCustomer |-> silver.rows[r]],
                                      withCustomer))
           /\ Latest(tables, last.target) = gold

C5_Witness ==
    /\ last.op = "create_gold_aggregations"
    /\ last.wrote
    /\ {"amount", "customer_id"} \subseteq last.source.cols
    /\ last.groups = <<"date", "region">>
    /\ \E g \in DOMAIN last.written.rows :
           g["total_amount"] = V(500) /\ g["transaction_count"] = V(1)

\* The last call is the create_gold_aggregations that ends the pipeline run on
\* main()'s three sample transactions: bronze and silver hold those three rows
\* and gold was built from that silver frame.
SamplePipelineDone ==
    /\ last.op = "create_gold_aggregations"
    /\ last.wrote
    /\ \A b \in BronzeTables :
           /\ Exists(tables, BronzePath(b))
           /\ SampleColumns \subseteq Latest(tables, BronzePath(b)).cols
           /\ Projected(Latest(tables, BronzePath(b)), SampleColumns) = SampleFrame.rows
    /\ SampleColumns \subseteq last.source.cols
    /\ Projected(last.source, SampleColumns) = SampleFrame.rows
    /\ \A t \in SilverTables : last.source = Latest(tables, SilverPath(t))
    /\ \A g \in GoldTables : last.written = Latest(tables, GoldPath(g))

GoldRow2(date, region, total, count) ==
    [date |-> V(date), region |-> V(region),
     total_amount |-> V(total), transaction_count |-> V(count)]

GoldRow3(date, region, type, total, count) ==
    [date |-> V(date), region |-> V(region), transaction_type |-> V(type),
     total_amount |-> V(total), transaction_count |-> V(count)]

\* C6, as stated: the sample pipeline yields a gold frame grouped by
\* (date, region) whose rows are exactly (2024-01-01, US, 1000, 1),
\* (2024-01-01, EU, 500, 1), (2024-01-02, US, 200, 1).
C6_SampleGoldByDateRegion ==
    SamplePipelineDone =>
        /\ last.groups = <<"date", "region">>
        /\ last.written.rows =
               BagFromSeq(<< GoldRow2(20240101, "US", 1000, 1),
                             GoldRow2(20240101, "EU", 500, 1),
                             GoldRow2(20240102, "US", 200, 1) >>)

\* C6, amended: the sample pipeline yields a gold frame grouped by
\* (date, region, transaction_type) whose rows are exactly
\* (2024-01-01, US, DEPOSIT, 1000, 1), (2024-01-01, EU, WITHDRAWAL, 500, 1),
\* (2024-01-02, US, DEPOSIT, 200, 1).
C6_SampleGoldByDateRegionType ==
    SamplePipelineDone =>
        /\ last.groups = <<"date", "region", "transaction_type">>
        /\ last.written.cols = {"date", "region", "transaction_type",
                                "total_amount", "transaction_count"}
        /\ last.written.rows =
               BagFromSeq(<< GoldRow3(20240101, "US", "DEPOSIT", 1000, 1),
                             GoldRow3(20240101, "EU", "WITHDRAWAL", 500, 1),
                             GoldRow3(20240102, "US", "DEPOSIT", 200, 1) >>)

C6_Witness ==
    /\ SamplePipelineDone
    /\ BagSize(last.written.rows) = 3

\* C7: write_bronze_layer writes every input column and region, keeps the
\* input's values, and when the input has no region column every written row's
\* region is its country if the input has a country column and "UNKNOWN"
\* otherwise.
C7_RegionDerivation ==
    last.op = "write_bronze_layer" =>
        LET df == last.df
            out == last.written
        IN /\ df.cols \cup {"region"} \subseteq out.cols
           /\ Projected(out, df.cols) = df.rows
           /\ ("region" \notin df.cols /\ "country" \in df.cols) =>
                  \A r \in DOMAIN out.rows : r["region"] = r["country"]
           /\ ("region" \notin df.cols /\ "country" \notin df.cols) =>
                  \A r \in DOMAIN out.rows : r["region"] = V("UNKNOWN")
           /\ Latest(tables, last.target) = out

C7_Witness ==
    /\ last.op = "write_bronze_layer"
    /\ "region" \notin last.df.cols
    /\ "country" \in last.df.cols
    /\ \E r \in DOMAIN last.written.rows : r["region"] = V("EU")
    /\ \E r \in DOMAIN last.written.rows : r["region"] = V("US")

\* The frame of the latest version of `log` committed at or before tick t.
FrameAsOfTick(log, t) ==
    LET upto == {i \in DOMAIN log : log[i].ts <= t}
    IN log[CHOOSE i \in upto : \A j \in upto : j <= i].frame

\* C8: time_travel_query never passes both versionAsOf and timestampAsOf; with
\* a version (and any timestamp) it passes versionAsOf alone and returns that
\* version of the table; with a timestamp alone it passes timestampAsOf alone
\* and returns the table as of that timestamp; with neither it passes no
\* option and returns the latest version.
C8_VersionBeforeTimestamp ==
    last.op = "time_travel_query" =>
        LET log == tables[last.path]
        IN /\ ~({"versionAsOf", "timestampAsOf"} \subseteq DOMAIN last.options)
           /\ last.version # Null =>
                  /\ DOMAIN last.options = {"versionAsOf"}
                  /\ last.options["versionAsOf"] = ToString(last.version[1])
                  /\ IF last.version[1] + 1 \in DOMAIN log
                     THEN ~last.raised /\ last.ret = log[last.version[1] + 1].frame
                     ELSE last.raised
           /\ (last.version = Null /\ last.timestamp # Null) =>
                  /\ DOMAIN last.options = {"timestampAsOf"}
                  /\ last.options["timestampAsOf"] = last.timestamp[1]
                  /\ \A k \in 0..(MaxCalls + 1) :
                         (last.timestamp[1] = TimestampString(k) /\ ~last.raised) =>
                             last.ret = FrameAsOfTick(log, k)
           /\ (last.version = Null /\ last.timestamp = Null) =>
                  /\ DOMAIN last.options = {}
                  /\ last.raised = (log = <<>>)
                  /\ ~last.raised => last.ret = log[Len(log)].frame

C8_Witness ==
    /\ last.op = "time_travel_query"
    /\ last.version = V(1)
    /\ last.timestamp = V(TimestampString(1))
    /\ ~last.raised
    /\ Len(tables[last.path]) >= 2
    /\ last.ret = tables[last.path][2].frame
    /\ last.ret # FrameAsOfTick(tables[last.path], 1)

\* C9: a transform_to_silver call never raises; it commits the silver frame
\* first and the optimization's version, if any, after it; the optimization is
\* attempted only with at least one of customer_id, transaction_type, both
\* taken from the silver schema; and when the optimization fails the table
\* holds exactly the frame written before it.
C9_OptimizeIsBestEffort ==
    [][ last'.op = "transform_to_silver" =>
            LET t == last'.target
                w == [frame |-> last'.written, ts |-> clock']
                failed == last'.optimize \in {"failed", "open_failed"}
            IN /\ ~last'.raised
               /\ last'.wrote
               /\ IF last'.optimize = "done" /\ DOMAIN last'.written.rows # {}
                  THEN tables'[t] = Append(Append(tables[t], w), w)
                  ELSE tables'[t] = Append(tables[t], w)
               /\ last'.optimize \in {"done", "failed"} =>
                      /\ last'.zorder # <<>>
                      /\ Range(last'.zorder) \subseteq
                             {"customer_id", "transaction_type"} \cap last'.written.cols
               /\ last'.optimize = "skipped" =>
                      {"customer_id", "transaction_type"} \cap last'.written.cols = {}
               /\ failed => Latest(tables', t) = last'.written
               /\ \A p \in Paths \ {t} : tables'[p] = tables[p] ]_vars

C9_Witness ==
    /\ last.op = "transform_to_silver"
    /\ last.optimize = "failed"
    /\ last.zorder = <<"customer_id", "transaction_type">>
    /\ ~last.raised
    /\ Latest(tables, last.target) = last.written
    /\ BagSize(last.written.rows) = 3

\* C10: create_gold_aggregations on an existing silver table that has none of
\* date, region, transaction_type groups by the fallback [date], raises, and
\* changes no table.
C10_FallbackGroupingRaises ==
    [][ (/\ last'.op = "create_gold_aggregations"
         /\ Exists(tables, last'.path)
         /\ Latest(tables, last'.path).cols
                \cap {"date", "region", "transaction_type"} = {}) =>
            /\ last'.groups = <<"date">>
            /\ "date" \notin Latest(tables, last'.path).cols
            /\ last'.raised
            /\ ~last'.wrote
            /\ tables' = tables ]_vars

C10_Witness ==
    /\ last.op = "create_gold_aggregations"
    /\ last.raised
    /\ last.sourceFound
    /\ last.source = EmptyIdFrame
    /\ last.groups = <<"date">>
    /\ \A g \in GoldTables : ~Exists(tables, GoldPath(g))

====
